---------------------------- MODULE Spec2Model ----------------------------
(***************************************************************************)
(* Model of src/ai_camera_pipeline.py: StreamProcessor.run_single_stream,  *)
(* PerformanceBenchmark.benchmark_streams (the sweep over fps targets and  *)
(* stream counts, with its worker pool and resource-monitor threads) and   *)
(* PerformanceBenchmark.find_optimal_configuration.                        *)
(*                                                                         *)
(* Numbers.  Python floats are modelled as exact rationals <<n, d>> in     *)
(* lowest terms (d > 0); the literal 0.5 is 1/2 and the literal 0.8 is     *)
(* 4/5.  Rounding of IEEE doubles is outside the model.                    *)
(*                                                                         *)
(* Two specifications share the variables and the operators:               *)
(*   Spec     the sweep at the granularity of its threads: every stream    *)
(*            worker, its gst-launch process, the fan-in and the monitor   *)
(*            threads are separate steps;                                  *)
(*   SpecLog  every trial is one step (TrialAtomic), so that logs of       *)
(*            several sweeps and their analysis stay within reach.         *)
(***************************************************************************)
EXTENDS Integers, Sequences, FiniteSets, TLC

(***************************************************************************)
(* Bounds of the model.                                                    *)
(***************************************************************************)
MaxStreams == 2      \* largest max_streams argument tried
MaxFanIn == 3        \* SpecFanIn: largest number of streams of the trial
MaxTrials == 4       \* a call is made only while the log and the trials the call
                     \* can run, max_streams * len(fps_targets), stay within this
MaxLogStreams == 3   \* SpecLog: largest max_streams argument tried
MaxLogTrials == 5    \* SpecLog: as MaxTrials

(***************************************************************************)
(* Program constants.                                                      *)
(***************************************************************************)
Duration == 60           \* duration passed to run_single_stream
DetectionInterval == 10  \* a detection every 10 frames
CallsInMain == 2         \* main() calls benchmark_streams for the CPU, then for the GPU

Devices == {"CPU", "GPU"}
\* the fps_targets and video_files arguments tried
FpsTargetLists == {<<>>, <<15>>, <<15, 30>>, <<30, 15>>}
VideoLists == {<<>>, <<"sample1.mp4">>, <<"sample1.mp4", "sample2.mp4">>}

\* frame counts a stream may reach when its loop runs for the whole duration
FrameCounts == {600}
\* <<frame_count, actual_duration>> of a loop left by the break at
\* process.poll() is not None
BreakOutcomes == {<<150, 30>>}

NoException == "NoException"

(***************************************************************************)
(* Rationals.                                                              *)
(***************************************************************************)
\* the element of a one-element set; {e(x) : x \in {v}} evaluates v once
Only(S) == CHOOSE x \in S : TRUE

RECURSIVE GCD(_, _)
GCD(a, b) == IF b = 0 THEN a ELSE GCD(b, a % b)

Abs(x) == IF x < 0 THEN -x ELSE x

Reduce(n, d) ==
    LET g == GCD(Abs(n), Abs(d))
        s == IF d < 0 THEN -1 ELSE 1
    IN  <<(s * n) \div g, (s * d) \div g>>

Rat(n, d) == Only({Reduce(a, b) : a \in {n}, b \in {d}})

Zero == <<0, 1>>
RatAdd(p, q) == Only({Rat(a[1] * b[2] + b[1] * a[2], a[2] * b[2]) : a \in {p}, b \in {q}})
RatDivInt(p, k) == Only({Rat(a[1], a[2] * k) : a \in {p}})
RatMulInt(p, k) == Only({Rat(a[1] * k, a[2]) : a \in {p}})
RatMul(p, q) == Only({Rat(a[1] * b[1], a[2] * b[2]) : a \in {p}, b \in {q}})
RatLess(p, q) == \E a \in {p}, b \in {q} : a[1] * b[2] < b[1] * a[2]

(***************************************************************************)
(* StreamProcessor.run_single_stream: the two results it can return.       *)
(***************************************************************************)
\* lines 107-120: the loop has ended without an exception
SuccessResult(stream_id, dev, fps_target, frame_count, actual_duration) ==
    [stream_id |-> stream_id,
     device |-> dev,
     target_fps |-> fps_target,
     actual_fps |-> IF actual_duration > 0
                    THEN Rat(frame_count, actual_duration)
                    ELSE Zero,
     frames_processed |-> frame_count,
     detections |-> frame_count \div DetectionInterval,
     duration |-> actual_duration,
     error |-> "",
     success |-> TRUE]

\* lines 122-128: an exception was caught
FailureResult(stream_id, dev, message) ==
    [stream_id |-> stream_id,
     device |-> dev,
     target_fps |-> 0,
     actual_fps |-> Zero,
     frames_processed |-> 0,
     detections |-> 0,
     duration |-> 0,
     error |-> message,
     success |-> FALSE]

\* placeholder of a worker that has not built its result yet
NoResult == FailureResult(-1, "", "NoResult")

\* what the loop of lines 94-105 can have counted when it is left:
\* by the break (the process has exited) or by the duration running out
LoopOutcomes(broke, fps_target) ==
    IF broke
    THEN BreakOutcomes
    ELSE {<<f, Duration>> : f \in {c \in FrameCounts : c <= Duration * fps_target}}

(***************************************************************************)
(* benchmark_streams: aggregation of one trial (lines 239-257).            *)
(***************************************************************************)
Successful(stream_results) == SelectSeq(stream_results, LAMBDA r : r.success)

RECURSIVE SumFps(_)
SumFps(s) == IF s = <<>> THEN Zero ELSE RatAdd(s[1].actual_fps, SumFps(Tail(s)))

RECURSIVE SumDetections(_)
SumDetections(s) == IF s = <<>> THEN 0 ELSE s[1].detections + SumDetections(Tail(s))

TrialRecord(dev, n, fps_target, successful_streams, now) ==
    Only({[device |-> dev,
           num_streams |-> n,
           target_fps |-> fps_target,
           successful_streams |-> Len(successful_streams),
           avg_fps_per_stream |-> avg_fps,
           total_fps |-> RatMulInt(avg_fps, Len(successful_streams)),
           total_detections |-> SumDetections(successful_streams),
           timestamp |-> now] :
          avg_fps \in {RatDivInt(SumFps(successful_streams), Len(successful_streams))}})

\* lines 240-257: the log after the trial whose results are stream_results
AppendTrial(log, dev, n, fps_target, stream_results) ==
    Only({IF successful_streams # <<>>
          THEN Append(log, TrialRecord(dev, n, fps_target, successful_streams, Len(log) + 1))
          ELSE log :
          successful_streams \in {Successful(stream_results)}})

\* line 264: len(successful_streams) < num_streams * 0.5
EarlyStop_AtMostHalf(successful_count, n) == 2 * successful_count <= n
EarlyStop_Never(successful_count, n) == FALSE
EarlyStop(successful_count, n) == 2 * successful_count < n

\* range(num_streams), line 222
StreamIds_OffByOne(n) == 0 .. n
StreamIds(n) == 0 .. (n - 1)

(***************************************************************************)
(* find_optimal_configuration (lines 270-311).                             *)
(***************************************************************************)
\* lines 276-277: the records of one device, in the order of the log
DeviceResults(log, dev) == SelectSeq(log, LAMBDA r : r.device = dev)

\* line 281: the devices the analysis loops over
AnalysedDevices_CpuOnly == {"CPU"}
AnalysedDevices == {"CPU", "GPU"}

\* line 286
MaxNumStreams(rs) ==
    CHOOSE m \in {rs[i].num_streams : i \in DOMAIN rs} :
        \A i \in DOMAIN rs : rs[i].num_streams <= m

\* line 289: max() keeps the first of the largest elements
RECURSIVE MaxTotalFpsFrom(_, _, _)
MaxTotalFpsFrom(rs, i, best) ==
    IF i > Len(rs) THEN best
    ELSE IF RatLess(best.total_fps, rs[i].total_fps)
         THEN MaxTotalFpsFrom(rs, i + 1, rs[i])
         ELSE MaxTotalFpsFrom(rs, i + 1, best)

BestFpsConfig(rs) == MaxTotalFpsFrom(rs, 2, rs[1])

\* line 292: the sort key (target_fps, num_streams), compared as tuples
KeyLess_StreamsOnly(a, b) == a.num_streams < b.num_streams
KeyLess(a, b) ==
    \/ a.target_fps < b.target_fps
    \/ a.target_fps = b.target_fps /\ a.num_streams < b.num_streams

\* line 292: sorted() is stable; modelled as a stable insertion sort
RECURSIVE InsertSorted(_, _)
InsertSorted(s, r) ==
    IF s = <<>> THEN <<r>>
    ELSE IF KeyLess(r, s[1]) THEN <<r>> \o s
         ELSE <<s[1]>> \o InsertSorted(Tail(s), r)

RECURSIVE SortedResults(_)
SortedResults(rs) ==
    IF rs = <<>> THEN <<>>
    ELSE InsertSorted(SortedResults(SubSeq(rs, 1, Len(rs) - 1)), rs[Len(rs)])

\* lines 299-300
Degraded_AnyTarget(prev, curr) ==
    RatLess(curr.avg_fps_per_stream, RatMul(prev.avg_fps_per_stream, <<4, 5>>))
Degraded(prev, curr) ==
    /\ RatLess(curr.avg_fps_per_stream, RatMul(prev.avg_fps_per_stream, <<4, 5>>))
    /\ curr.target_fps = prev.target_fps

\* lines 293-302: the loop over adjacent pairs, left at the first degraded one
RECURSIVE BottleneckFrom(_, _, _)
BottleneckFrom(sorted_results, i, bottleneck_stream_count) ==
    IF i > Len(sorted_results) THEN bottleneck_stream_count
    ELSE IF Degraded(sorted_results[i - 1], sorted_results[i])
         THEN sorted_results[i - 1].num_streams
         ELSE BottleneckFrom(sorted_results, i + 1, bottleneck_stream_count)

\* lines 285-309
DeviceReport(rs) ==
    [max_streams |-> MaxNumStreams(rs),
     best_config |-> BestFpsConfig(rs),
     bottleneck_at_streams |-> BottleneckFrom(SortedResults(rs), 2, MaxNumStreams(rs)),
     total_results |-> Len(rs)]

\* lines 270-311: the returned value is None (is_none) or the dict analysis,
\* a function from the devices that have an entry to their reports
NoReports == [dev \in {} |-> 0]

FindOptimalConfiguration(log) ==
    IF log = <<>>
    THEN [is_none |-> TRUE, reports |-> NoReports]
    ELSE [is_none |-> FALSE,
          reports |-> [dev \in {d \in AnalysedDevices : DeviceResults(log, d) # <<>>} |->
                          DeviceReport(DeviceResults(log, dev))]]

(***************************************************************************)
(* State.                                                                  *)
(***************************************************************************)
VARIABLES
    pc,              \* where the caller of benchmark_streams is
    device,          \* arguments of the benchmark_streams call in progress
    max_streams,
    fps_targets,
    video_files,
    fps_index,       \* position of the outer loop in fps_targets (1-based)
    num_streams,     \* inner loop variable
    workers,         \* the executor's threads of the current trial, by stream number
    stream_results,  \* results collected from as_completed, in arrival order
    results,         \* self.results
    monitors,        \* resource_monitor threads that are still sampling
    testing,         \* the "Testing n streams..." lines printed by the last call,
                     \* as <<position in fps_targets, n>>
    exception,       \* exception that left the last benchmark_streams call, if any
    sweeps,          \* benchmark_streams calls made so far
    analysis         \* <<value>> returned by the last find_optimal_configuration
                     \* call, <<>> before the first call

vars == <<pc, device, max_streams, fps_targets, video_files, fps_index, num_streams,
          workers, stream_results, results, monitors, testing, exception, sweeps,
          analysis>>

args == <<device, max_streams, fps_targets, video_files>>

NotCalled == <<>>
NoDevice == "NoDevice"
NoWorkers == [i \in {} |-> NoResult]

\* no call of benchmark_streams is in progress: its arguments and loop
\* variables do not exist
NoFrame ==
    /\ device' = NoDevice
    /\ max_streams' = 0
    /\ fps_targets' = <<>>
    /\ video_files' = <<>>
    /\ fps_index' = 0
    /\ num_streams' = 0

\* PerformanceBenchmark.__init__, lines 138-140
Init ==
    /\ pc = "idle"
    /\ device = NoDevice
    /\ max_streams = 0
    /\ fps_targets = <<>>
    /\ video_files = <<>>
    /\ fps_index = 0
    /\ num_streams = 0
    /\ workers = NoWorkers
    /\ stream_results = <<>>
    /\ results = <<>>
    /\ monitors = 0
    /\ testing = <<>>
    /\ exception = NoException
    /\ sweeps = 0
    /\ analysis = NotCalled

Callable == pc \in {"idle", "returned", "raised"}
InCall == pc \in {"called", "trial", "collect", "pause"}

(***************************************************************************)
(* benchmark_streams: loop control.  A position is <<pc, fps_index,        *)
(* num_streams>>.                                                          *)
(***************************************************************************)
\* lines 200 and 203: the first trial of a call, if the loops have one
FirstTrial(ms, ft) ==
    IF ft # <<>> /\ ms >= 1 THEN <<"trial", 1, 1>> ELSE <<"returned", 0, 0>>

\* line 200: the outer loop moves to the target after fi, or the call returns
NextTarget(fi) ==
    IF fi < Len(fps_targets) THEN <<"trial", fi + 1, 1>> ELSE <<"returned", 0, 0>>

\* line 266: break leaves the inner loop only
BreakTo_LeavesSweep(fi) == <<"returned", 0, 0>>
BreakTo(fi) == NextTarget(fi)

\* lines 203 and 268: the inner loop moves on after the pause
NextTrial(fi, n) ==
    IF n < max_streams THEN <<"trial", fi, n + 1>> ELSE NextTarget(fi)

\* lines 264-268: where the sweep goes after a trial with the given successes
AfterTrial(fi, n, successful_count) ==
    IF EarlyStop(successful_count, n) THEN BreakTo(fi) ELSE <<"pause", fi, n>>

\* the caller moves to a position; when the call returns its frame is gone
Goto(pos) ==
    /\ pc' = pos[1]
    /\ IF pos[1] = "returned"
       THEN NoFrame
       ELSE /\ fps_index' = pos[2]
            /\ num_streams' = pos[3]
            /\ UNCHANGED args

\* line 223: i % len(video_files) with an empty list; the exception leaves
\* benchmark_streams
Raise(e) ==
    /\ pc' = "raised"
    /\ exception' = e
    /\ NoFrame

(***************************************************************************)
(* benchmark_streams is called (line 195) and reaches its loops (198-203). *)
(***************************************************************************)
Call(vf, dev, ms, ft) ==
    /\ analysis = NotCalled
    /\ pc' = "called"
    /\ device' = dev
    /\ max_streams' = ms
    /\ fps_targets' = ft
    /\ video_files' = vf
    /\ testing' = <<>>
    /\ exception' = NoException
    /\ sweeps' = sweeps + 1
    /\ UNCHANGED <<fps_index, num_streams, workers, stream_results, results, monitors,
                   analysis>>

\* Spec follows one call
StartSweep ==
    /\ pc = "idle"
    /\ \E vf \in VideoLists, dev \in Devices, ms \in 0 .. MaxStreams, ft \in FpsTargetLists :
          /\ ms * Len(ft) <= MaxTrials
          /\ Call(vf, dev, ms, ft)

Enter ==
    /\ pc = "called"
    /\ Goto(FirstTrial(max_streams, fps_targets))
    /\ UNCHANGED <<workers, stream_results, results, monitors, testing, exception, sweeps,
                   analysis>>

(***************************************************************************)
(* One trial, thread by thread.                                            *)
(***************************************************************************)
\* line 223: video_files[i % len(video_files)], for a non-empty list
VideoFor_AlwaysFirst(i, files) == files[1]
VideoFor(i, files) == files[(i % Len(files)) + 1]

\* lines 204-231: the monitor thread is started, then the streams are submitted
Launch ==
    /\ pc = "trial"
    /\ testing' = Append(testing, <<fps_index, num_streams>>)
    /\ monitors' = monitors + 1
    /\ IF video_files = <<>>
       THEN /\ Raise("ZeroDivisionError")
            /\ UNCHANGED <<workers, stream_results>>
       ELSE /\ pc' = "collect"
            /\ workers' = [i \in StreamIds(num_streams) |->
                              [st |-> "queued",
                               video |-> VideoFor(i, video_files),
                               process |-> "none",
                               broke |-> FALSE,
                               result |-> NoResult,
                               collected |-> FALSE]]
            /\ stream_results' = <<>>
            /\ UNCHANGED <<args, fps_index, num_streams, exception>>
    /\ UNCHANGED <<results, sweeps, analysis>>

WorkerStep(i, w) ==
    /\ workers' = [workers EXCEPT ![i] = w]
    /\ UNCHANGED <<pc, args, fps_index, num_streams, stream_results, results, monitors,
                   testing, exception, sweeps, analysis>>

\* lines 80-87: Popen starts gst-launch-1.0, or raises (caught at line 122;
\* process is still None, so the finally block does nothing)
StreamStart(i) ==
    /\ i \in DOMAIN workers
    /\ workers[i].st = "queued"
    /\ \/ WorkerStep(i, [workers[i] EXCEPT !.st = "loop", !.process = "running"])
       \/ WorkerStep(i, [workers[i] EXCEPT !.st = "done",
                            !.result = FailureResult(i, device, "OSError")])

\* the gst-launch process ends on its own while the stream's loop is running
ProcessExit(i) ==
    /\ i \in DOMAIN workers
    /\ workers[i].st = "loop"
    /\ workers[i].process = "running"
    /\ WorkerStep(i, [workers[i] EXCEPT !.process = "exited"])

\* lines 94-120: the loop ends, by the break of line 96 when poll() shows the
\* process gone, else by the duration; the result is built and returned
StreamLoop(i) ==
    /\ i \in DOMAIN workers
    /\ workers[i].st = "loop"
    /\ LET broke == workers[i].process = "exited"
       IN  \E o \in LoopOutcomes(broke, fps_targets[fps_index]) :
             WorkerStep(i, [workers[i] EXCEPT
                 !.st = "finally",
                 !.broke = broke,
                 !.result = SuccessResult(i, device, fps_targets[fps_index], o[1], o[2])])

\* lines 129-135: terminate(), wait(timeout=5), and kill() when the wait expires
StreamFinally(i) ==
    /\ i \in DOMAIN workers
    /\ workers[i].st = "finally"
    /\ IF workers[i].process = "exited"
       THEN WorkerStep(i, [workers[i] EXCEPT !.st = "done"])
       ELSE \/ WorkerStep(i, [workers[i] EXCEPT !.st = "done", !.process = "terminated"])
            \/ WorkerStep(i, [workers[i] EXCEPT !.st = "done", !.process = "killed"])

\* lines 235-237: as_completed yields a finished future, its result is appended
Collect(i) ==
    /\ pc = "collect"
    /\ i \in DOMAIN workers
    /\ workers[i].st = "done"
    /\ ~workers[i].collected
    /\ stream_results' = Append(stream_results, workers[i].result)
    /\ workers' = [workers EXCEPT ![i].collected = TRUE]
    /\ UNCHANGED <<pc, args, fps_index, num_streams, results, monitors, testing,
                   exception, sweeps, analysis>>

\* lines 235-237 and the end of the with block of line 220: the loop over
\* as_completed(futures) has yielded every future
AllCollected_FirstCompleted == \E i \in DOMAIN workers : workers[i].collected
AllCollected_MonitorJoined ==
    (\A i \in DOMAIN workers : workers[i].collected) /\ monitors = 0
AllCollected == \A i \in DOMAIN workers : workers[i].collected

\* lines 239-266: every future has been collected and the executor is shut
\* down; the trial is aggregated and the early stop decided
Aggregate ==
    /\ pc = "collect"
    /\ AllCollected
    /\ results' = AppendTrial(results, device, num_streams, fps_targets[fps_index],
                              stream_results)
    /\ Goto(AfterTrial(fps_index, num_streams, Len(Successful(stream_results))))
    /\ workers' = NoWorkers
    /\ stream_results' = <<>>
    /\ UNCHANGED <<monitors, testing, exception, sweeps, analysis>>

\* line 268 and the next iteration of the loops
Pause ==
    /\ pc = "pause"
    /\ Goto(NextTrial(fps_index, num_streams))
    /\ UNCHANGED <<workers, stream_results, results, monitors, testing, exception,
                   sweeps, analysis>>

\* monitor_resources returns (lines 166-193) and its thread ends
MonitorDone ==
    /\ monitors > 0
    /\ monitors' = monitors - 1
    /\ UNCHANGED <<pc, args, fps_index, num_streams, workers, stream_results, results,
                   testing, exception, sweeps, analysis>>

\* the steps of the program's own threads
Threads ==
    \/ Enter
    \/ Launch
    \/ \E i \in StreamIds(MaxStreams) : StreamStart(i)
    \/ \E i \in StreamIds(MaxStreams) : StreamLoop(i)
    \/ \E i \in StreamIds(MaxStreams) : StreamFinally(i)
    \/ \E i \in StreamIds(MaxStreams) : Collect(i)
    \/ Aggregate
    \/ Pause
    \/ MonitorDone

\* the steps of the caller and of the gst-launch processes
Environment ==
    \/ StartSweep
    \/ \E i \in StreamIds(MaxStreams) : ProcessExit(i)

Next == Environment \/ Threads

Spec == Init /\ [][Next]_vars

\* the scheduler lets a thread that can take a step take one eventually;
\* nothing is assumed of the caller or of the processes
FairSpec == Spec /\ WF_vars(Threads)

(***************************************************************************)
(* SpecLog: the record log and its analysis.  A trial is one step; its     *)
(* threads (workers, monitor) are not tracked.                             *)
(***************************************************************************)
\* lines 65-135: every result run_single_stream can return for one stream
StreamOutcomes(i, dev, fps_target) ==
    {FailureResult(i, dev, "OSError")}
    \cup {SuccessResult(i, dev, fps_target, o[1], o[2]) :
              o \in LoopOutcomes(TRUE, fps_target) \cup LoopOutcomes(FALSE, fps_target)}

\* SpecLog follows the calls main() makes, with any arguments
StartSweepLog ==
    /\ Callable
    /\ sweeps < CallsInMain
    /\ \E vf \in VideoLists, dev \in Devices, ms \in 0 .. MaxLogStreams, ft \in FpsTargetLists :
          /\ Len(results) + ms * Len(ft) <= MaxLogTrials
          /\ Call(vf, dev, ms, ft)

\* lines 204-268: one pass of the inner loop body
TrialAtomic ==
    /\ pc = "trial"
    /\ testing' = Append(testing, <<fps_index, num_streams>>)
    /\ IF video_files = <<>>
       THEN /\ Raise("ZeroDivisionError")
            /\ UNCHANGED results
       ELSE \E o \in [StreamIds(num_streams) -> StreamOutcomes(0, device, fps_targets[fps_index])] :
              /\ LET out == [i \in StreamIds(num_streams) |-> [o[i] EXCEPT !.stream_id = i]]
                     collected == [k \in 1 .. Cardinality(StreamIds(num_streams)) |-> out[k - 1]]
                     pos == AfterTrial(fps_index, num_streams, Len(Successful(collected)))
                 IN  /\ results' = AppendTrial(results, device, num_streams,
                                               fps_targets[fps_index], collected)
                     /\ Goto(IF pos[1] = "pause"
                             THEN NextTrial(fps_index, num_streams)
                             ELSE pos)
              /\ UNCHANGED exception
    /\ UNCHANGED <<workers, stream_results, monitors, sweeps, analysis>>

\* find_optimal_configuration is called (lines 415 and 318)
Analyze ==
    /\ Callable
    /\ analysis' = <<FindOptimalConfiguration(results)>>
    /\ UNCHANGED <<pc, args, fps_index, num_streams, workers, stream_results, results,
                   monitors, testing, exception, sweeps>>

NextLog == StartSweepLog \/ Enter \/ TrialAtomic \/ Analyze

SpecLog == Init /\ [][NextLog]_vars

(***************************************************************************)
(* Python floats: IEEE-754 binary64, round to nearest, ties to even.       *)
(* A positive float is [m |-> mantissa, e |-> exponent]: the number        *)
(* m * 2^e with 2^52 <= m < 2^53.  Zero is the float with the empty        *)
(* mantissa.  Wide naturals such as m are sequences of limbs, digits in    *)
(* base 2^LimbBits, most significant first, without leading zero limbs.    *)
(***************************************************************************)
MantissaBits == 53
LimbBits == 13
Base == 2 ^ LimbBits
FloatZero == [m |-> <<>>, e |-> 0]

Front(s) == SubSeq(s, 1, Len(s) - 1)
ZeroLimbs(k) == [i \in 1 .. k |-> 0]

RECURSIVE StripZeros(_)
StripZeros(s) == IF s # <<>> /\ s[1] = 0 THEN StripZeros(Tail(s)) ELSE s

RECURSIVE IntLimbs(_)
IntLimbs(n) == IF n = 0 THEN <<>> ELSE Append(IntLimbs(n \div Base), n % Base)

\* number of bits of a natural below Base, and of a wide natural
SmallBitLen(n) == CHOOSE k \in 0 .. LimbBits : n < 2 ^ k /\ (k = 0 \/ 2 ^ (k - 1) <= n)
BitLen(a) == IF a = <<>> THEN 0 ELSE LimbBits * (Len(a) - 1) + SmallBitLen(a[1])

\* a + b + c for limb sequences a, b of one length and a carry c
RECURSIVE WideAddC(_, _, _)
WideAddC(a, b, c) ==
    IF a = <<>>
    THEN IntLimbs(c)
    ELSE Only({Append(WideAddC(Front(a), Front(b), t \div Base), t % Base) :
                 t \in {a[Len(a)] + b[Len(b)] + c}})

WideAdd(a, b) ==
    Only({WideAddC(ZeroLimbs(n - Len(a)) \o a, ZeroLimbs(n - Len(b)) \o b, 0) :
            n \in {IF Len(a) < Len(b) THEN Len(b) ELSE Len(a)}})

\* a * k + c for a wide natural a and naturals k <= Base, c
RECURSIVE WideMulC(_, _, _)
WideMulC(a, k, c) ==
    IF a = <<>>
    THEN IntLimbs(c)
    ELSE Only({Append(WideMulC(Front(a), k, t \div Base), t % Base) :
                 t \in {a[Len(a)] * k + c}})

\* <<quotient, remainder>> of the wide natural a by a natural 1 <= k <= Base;
\* the quotient keeps leading zero limbs
RECURSIVE WideDivMod(_, _)
WideDivMod(a, k) ==
    IF a = <<>>
    THEN <<(<<>>), 0>>
    ELSE Only({<<Append(p[1], (Base * p[2] + a[Len(a)]) \div k),
                 (Base * p[2] + a[Len(a)]) % k>> :
                 p \in {WideDivMod(Front(a), k)}})

\* a * 2^s
ShiftLeft(a, s) ==
    StripZeros(WideMulC(a, 2 ^ (s % LimbBits), 0) \o ZeroLimbs(s \div LimbBits))

\* <<a div 2^s, whether a mod 2^s is not 0>>
ShiftRight(a, s) ==
    Only({<<StripZeros(p[1]),
            p[2] # 0 \/ \E i \in (Len(a) - (s \div LimbBits) + 1) .. Len(a) : a[i] # 0>> :
            p \in {WideDivMod(SubSeq(a, 1, Len(a) - (s \div LimbBits)), 2 ^ (s % LimbBits))}})

\* the float nearest to the number that is the wide natural a times 2^e when
\* ~inexact, and lies strictly between a * 2^e and (a + 1) * 2^e when inexact;
\* an inexact a has more than MantissaBits bits
RoundToFloat(a, inexact, e) ==
    Only({IF len <= MantissaBits
          THEN [m |-> ShiftLeft(a, MantissaBits - len), e |-> e - (MantissaBits - len)]
          ELSE Only({IF ~(half[2] = 1 /\ (rest[2] \/ inexact \/ half[1][Len(half[1])] % 2 = 1))
                     THEN [m |-> StripZeros(half[1]), e |-> e + len - MantissaBits]
                     ELSE Only({IF BitLen(r) > MantissaBits
                                THEN [m |-> ShiftRight(r, 1)[1], e |-> e + len - MantissaBits + 1]
                                ELSE [m |-> r, e |-> e + len - MantissaBits] :
                                r \in {StripZeros(WideAdd(half[1], <<1>>))}}) :
                     rest \in {ShiftRight(a, len - MantissaBits - 1)},
                     half \in {WideDivMod(ShiftRight(a, len - MantissaBits - 1)[1], 2)}}) :
          len \in {BitLen(a)}})

\* x + y (float_add)
FloatAdd(x, y) ==
    IF x.m = <<>> THEN y
    ELSE IF y.m = <<>> THEN x
    ELSE Only({RoundToFloat(WideAdd(ShiftLeft(x.m, x.e - e), ShiftLeft(y.m, y.e - e)),
                            FALSE, e) :
                 e \in {IF x.e < y.e THEN x.e ELSE y.e}})

\* x / n for an int 1 <= n < Base (float_div, the int converted exactly)
FloatDivInt(x, n) ==
    IF x.m = <<>> THEN x
    ELSE Only({RoundToFloat(StripZeros(p[1]), p[2] # 0, x.e - (SmallBitLen(n) + 2)) :
                 p \in {WideDivMod(ShiftLeft(x.m, SmallBitLen(n) + 2), n)}})

\* x * n for an int 1 <= n < Base (float_mul, the int converted exactly)
FloatMulInt(x, n) ==
    IF x.m = <<>> THEN x ELSE RoundToFloat(StripZeros(WideMulC(x.m, n, 0)), FALSE, x.e)

\* k / d for an int k >= 0 and the float d = d[1] * 2^d[2], 1 <= d[1] < Base
IntDivFloat(k, d) ==
    IF k = 0 THEN FloatZero
    ELSE Only({RoundToFloat(StripZeros(p[1]), p[2] # 0,
                            0 - (MantissaBits + SmallBitLen(d[1]) + 2) - d[2]) :
                 p \in {WideDivMod(ShiftLeft(IntLimbs(k), MantissaBits + SmallBitLen(d[1]) + 2),
                                   d[1])}})

(***************************************************************************)
(* SpecFanIn: the fan-in and the aggregation of one trial (lines 233-268)  *)
(* with the fps values as the floats the code computes.  It starts where   *)
(* every stream of the last trial of a call has returned its result and    *)
(* none has been collected.  sum() adds from 0 in the order of its         *)
(* argument, one float_add per element.                                    *)
(***************************************************************************)
\* actual_duration of a stream: 121 * 2^-1 = 60.5 seconds
ActualDurations == {<<121, -1>>}
\* frame counts of a stream that ran behind its target
SlowFrameCounts == {1000, 1004}
FanInTarget == <<30>>

\* lines 107-120, the division of line 109 carried out in floats
FloatSuccessResult(stream_id, dev, fps_target, frame_count, actual_duration) ==
    [stream_id |-> stream_id,
     device |-> dev,
     target_fps |-> fps_target,
     actual_fps |-> IntDivFloat(frame_count, actual_duration),
     frames_processed |-> frame_count,
     detections |-> frame_count \div DetectionInterval,
     duration |-> actual_duration,
     error |-> "",
     success |-> TRUE]

\* lines 122-128
FloatFailureResult(stream_id, dev, message) ==
    [FailureResult(stream_id, dev, message) EXCEPT !.actual_fps = FloatZero, !.duration = <<0, 0>>]

\* line 243: sum(r['actual_fps'] for r in successful_streams)
RECURSIVE FloatSumFps(_)
FloatSumFps(s) ==
    IF s = <<>>
    THEN FloatZero
    ELSE Only({FloatAdd(acc, s[Len(s)].actual_fps) : acc \in {FloatSumFps(Front(s))}})

\* lines 243-255
FloatTrialRecord(dev, n, fps_target, successful_streams, now) ==
    Only({[device |-> dev,
           num_streams |-> n,
           target_fps |-> fps_target,
           successful_streams |-> Len(successful_streams),
           avg_fps_per_stream |-> avg_fps,
           total_fps |-> FloatMulInt(avg_fps, Len(successful_streams)),
           total_detections |-> SumDetections(successful_streams),
           timestamp |-> now] :
          avg_fps \in {FloatDivInt(FloatSumFps(successful_streams), Len(successful_streams))}})

\* lines 240-257
FloatAppendTrial(log, dev, n, fps_target, arrived) ==
    Only({IF successful_streams # <<>>
          THEN Append(log, FloatTrialRecord(dev, n, fps_target, successful_streams,
                                            Len(log) + 1))
          ELSE log :
          successful_streams \in {Successful(arrived)}})

\* every result run_single_stream can have returned for stream i
FloatStreamOutcomes(i, dev, fps_target) ==
    {FloatFailureResult(i, dev, "OSError")}
    \cup {FloatSuccessResult(i, dev, fps_target, f, d) :
             f \in SlowFrameCounts, d \in ActualDurations}

\* the log left by the trials 1 .. n of one target in which every stream
\* counted the same frames
RECURSIVE LogOfTrials(_, _, _)
LogOfTrials(n, dev, fps_target) ==
    IF n = 0
    THEN <<>>
    ELSE Only({FloatAppendTrial(log, dev, n, fps_target,
                   [k \in 1 .. n |-> FloatSuccessResult(k - 1, dev, fps_target, 1000,
                                                        <<121, -1>>)]) :
                 log \in {LogOfTrials(n - 1, dev, fps_target)}})

InitFanIn ==
    \E n \in 1 .. MaxFanIn :
        /\ pc = "collect"
        /\ device = "CPU"
        /\ max_streams = n
        /\ fps_targets = FanInTarget
        /\ video_files = <<"sample1.mp4">>
        /\ fps_index = 1
        /\ num_streams = n
        /\ workers \in [StreamIds(n) ->
                           {[st |-> "done",
                             video |-> "sample1.mp4",
                             process |-> IF r.success THEN "terminated" ELSE "none",
                             broke |-> FALSE,
                             result |-> r,
                             collected |-> FALSE] :
                              r \in UNION {FloatStreamOutcomes(i, "CPU", FanInTarget[1]) :
                                             i \in StreamIds(n)}}]
        /\ \A i \in StreamIds(n) : workers[i].result.stream_id = i
        /\ stream_results = <<>>
        /\ results = LogOfTrials(n - 1, "CPU", FanInTarget[1])
        /\ monitors = 1
        /\ testing = [k \in 1 .. n |-> <<1, k>>]
        /\ exception = NoException
        /\ sweeps = 1
        /\ analysis = NotCalled

\* lines 239-266, as Aggregate
FloatAggregate ==
    /\ pc = "collect"
    /\ AllCollected
    /\ results' = FloatAppendTrial(results, device, num_streams, fps_targets[fps_index],
                                   stream_results)
    /\ Goto(AfterTrial(fps_index, num_streams, Len(Successful(stream_results))))
    /\ workers' = NoWorkers
    /\ stream_results' = <<>>
    /\ UNCHANGED <<monitors, testing, exception, sweeps, analysis>>

NextFanIn ==
    \/ \E i \in StreamIds(MaxFanIn) : Collect(i)
    \/ FloatAggregate
    \/ Pause
    \/ MonitorDone

SpecFanIn == InitFanIn /\ [][NextFanIn]_vars

(***************************************************************************)
(* Properties.                                                             *)
(***************************************************************************)
ValidCall == InCall /\ video_files # <<>> /\ max_streams >= 1
InvalidCall == InCall /\ (max_streams = 0 \/ video_files = <<>>)
AllFailed(rs) == rs # <<>> /\ Successful(rs) = <<>>
\* the step that aggregates a trial (lines 239-266)
TrialEnds == pc = "collect" /\ pc' # "collect"

\* C1: every completed trial appends exactly one record for its (device,
\* target_fps, num_streams) to self.results; when every stream of the trial
\* returned success = false that record has successful_streams = 0,
\* avg_fps_per_stream = 0 and total_fps = 0.
C1_EveryTrialRecorded ==
    [][(pc = "collect" /\ pc' # "collect") =>
          /\ Len(results') = Len(results) + 1
          /\ LET r == results'[Len(results')]
             IN  /\ r.device = device
                 /\ r.num_streams = num_streams
                 /\ r.target_fps = fps_targets[fps_index]
                 /\ (AllFailed(stream_results) =>
                        /\ r.successful_streams = 0
                        /\ r.avg_fps_per_stream = Zero
                        /\ r.total_fps = Zero)]_vars

\* C2: when a trial with num_streams = n ends with fewer than n * 0.5
\* successful streams, the sweep leaves this target_fps: the next trial
\* started is num_streams = 1 of the next entry of fps_targets (or the call
\* returns after the last entry).  When it ends with at least n * 0.5
\* successes and n < max_streams, the next trial started is n + 1 of the same
\* target_fps.  Every trial started is printed at its place in the sweep,
\* and the sweep never goes back to an earlier entry of fps_targets.
C2_EarlyStop ==
    [][/\ (pc = "collect" /\ pc' # "collect") =>
            IF 2 * Len(Successful(stream_results)) < num_streams
            THEN IF fps_index < Len(fps_targets)
                 THEN pc' = "trial" /\ fps_index' = fps_index + 1 /\ num_streams' = 1
                 ELSE pc' = "returned"
            ELSE pc' = "pause" /\ fps_index' = fps_index /\ num_streams' = num_streams
       /\ (pc = "pause" /\ pc' # "pause" /\ num_streams < max_streams) =>
            pc' = "trial" /\ fps_index' = fps_index /\ num_streams' = num_streams + 1
       /\ (pc = "trial" /\ pc' # "trial") =>
            testing' = Append(testing, <<fps_index, num_streams>>)
       /\ (InCall /\ pc' = "trial") => fps_index' >= fps_index]_vars

\* an early stop at num_streams = 1 < max_streams has moved the sweep to the
\* first trial of the second target
C2_Witness ==
    /\ pc = "trial"
    /\ max_streams = 2
    /\ fps_index = 2
    /\ num_streams = 1
    /\ testing = <<(<<1, 1>>)>>

\* C3: a stream whose gst-launch process exited on its own before the
\* duration had elapsed (the loop was left by the break at poll()) gets a
\* result with success = false and an error message, and is not counted among
\* the successful streams of its trial.
C3_ProcessExitIsFailure ==
    /\ \A i \in DOMAIN workers :
          workers[i].broke =>
              /\ workers[i].result.success = FALSE
              /\ workers[i].result.error # ""
    /\ \A k \in DOMAIN stream_results :
          stream_results[k].success => ~workers[stream_results[k].stream_id].broke

\* C4: a stream whose process did not stop within the grace period and was
\* killed still returns a result, and that result has success = false with a
\* timeout error.
C4_KilledIsTimeoutFailure ==
    \A i \in DOMAIN workers :
        (workers[i].st = "done" /\ workers[i].process = "killed") =>
            /\ workers[i].result.stream_id = i
            /\ workers[i].result.success = FALSE
            /\ workers[i].result.error = "timeout"

\* the trials with num_streams = 1 among the printed ones
FirstTrials(printed) == SelectSeq(printed, LAMBDA t : t[2] = 1)

\* C5: a call of benchmark_streams with a non-empty video_files list and
\* max_streams >= 1 always returns, whatever the streams do, and when it has
\* returned, the trials with num_streams = 1 it has run are exactly one per
\* entry of fps_targets, in the order of fps_targets.
C5_SweepCompletes ==
    /\ [][(ValidCall /\ ~InCall') =>
             /\ pc' = "returned"
             /\ FirstTrials(testing') = [fi \in 1 .. Len(fps_targets) |-> <<fi, 1>>]]_vars
    /\ (ValidCall ~> (pc = "returned"))

\* a sweep over two targets has returned although every stream of it failed
C5_Witness ==
    /\ pc = "returned"
    /\ results = <<>>
    /\ testing = <<(<<1, 1>>), (<<2, 1>>)>>

\* C6: every record of self.results has successful_streams <= num_streams
\* and total_fps >= 0.
C6_RecordBounds ==
    \A k \in DOMAIN results :
        /\ results[k].successful_streams <= results[k].num_streams
        /\ ~RatLess(results[k].total_fps, Zero)

\* a record of a trial in which one of two streams failed
C6_Witness ==
    \E k \in DOMAIN results :
        /\ results[k].num_streams = 2
        /\ results[k].successful_streams = 1
        /\ RatLess(Zero, results[k].total_fps)

\* C7: a call with max_streams = 0 or with an empty video_files list fails
\* with ConfigError, and no stream is launched, no monitor thread is started
\* and no record is appended.
C7_InvalidConfigRejected ==
    [][InvalidCall =>
          /\ monitors' <= monitors
          /\ workers' = NoWorkers
          /\ results' = results
          /\ (~InCall' => (pc' = "raised" /\ exception' = "ConfigError"))]_vars

(***************************************************************************)
(* Properties of find_optimal_configuration, stated on the log itself.     *)
(***************************************************************************)
\* positions in self.results of the records of device dev
Positions(dev) == {k \in DOMAIN results : results[k].device = dev}

\* record j comes before record k when the records are sorted ascending by
\* (target_fps, num_streams), records with equal keys keeping their order
Before(j, k) ==
    \/ results[j].target_fps < results[k].target_fps
    \/ /\ results[j].target_fps = results[k].target_fps
       /\ results[j].num_streams < results[k].num_streams
    \/ /\ results[j].target_fps = results[k].target_fps
       /\ results[j].num_streams = results[k].num_streams
       /\ j < k

\* the records of dev in that order: the i-th is the one with i - 1 before it
Ordered(dev) ==
    [i \in 1 .. Cardinality(Positions(dev)) |->
        results[CHOOSE k \in Positions(dev) :
                   Cardinality({j \in Positions(dev) : Before(j, k)}) = i - 1]]

\* the indices i of Ordered(dev) whose pair (i - 1, i) has the same target_fps
\* and a drop of avg_fps_per_stream below 0.8 of the previous value
Drops(dev) ==
    {i \in 2 .. Cardinality(Positions(dev)) :
        LET prev == Ordered(dev)[i - 1]
            curr == Ordered(dev)[i]
        IN  /\ curr.target_fps = prev.target_fps
            /\ 5 * curr.avg_fps_per_stream[1] * prev.avg_fps_per_stream[2]
                 < 4 * prev.avg_fps_per_stream[1] * curr.avg_fps_per_stream[2]}

Least(S) == CHOOSE x \in S : \A y \in S : x <= y
Greatest(S) == CHOOSE x \in S : \A y \in S : y <= x

Analysed == analysis # <<>>
Reports == analysis[1].reports

\* C8: per device, bottleneck_at_streams is prev.num_streams of the first
\* adjacent pair (prev, curr) of the device's records sorted ascending by
\* (target_fps, num_streams) that has the same target_fps and
\* curr.avg_fps_per_stream < prev.avg_fps_per_stream * 0.8, and the largest
\* num_streams of the device's records when no pair qualifies, whatever the
\* order in which the records were appended.
C8_Bottleneck ==
    Analysed =>
        \A dev \in DOMAIN Reports :
            Reports[dev].bottleneck_at_streams =
                IF Drops(dev) = {}
                THEN Greatest({results[k].num_streams : k \in Positions(dev)})
                ELSE Ordered(dev)[Least(Drops(dev)) - 1].num_streams

\* a report whose first qualifying pair is not the first pair of the sorted
\* records, and whose bottleneck lies below the largest num_streams tested
C8_Witness ==
    /\ Analysed
    /\ \E dev \in DOMAIN Reports :
          /\ Drops(dev) # {}
          /\ Least(Drops(dev)) > 2
          /\ Reports[dev].bottleneck_at_streams < Reports[dev].max_streams

\* C9: per device, best_config is a record of the device with the largest
\* total_fps, and among several such records it is the first one in the
\* order of the records sorted ascending by (target_fps, num_streams),
\* whatever the order in which the records were appended.
C9_BestConfigFirstInSortedOrder ==
    Analysed =>
        \A dev \in DOMAIN Reports :
            LET best == {i \in DOMAIN Ordered(dev) :
                            \A j \in DOMAIN Ordered(dev) :
                                ~RatLess(Ordered(dev)[i].total_fps, Ordered(dev)[j].total_fps)}
            IN  Reports[dev].best_config = Ordered(dev)[Least(best)]

\* C10: the value returned is None exactly when the log is empty, and
\* otherwise it has an entry for a device exactly when the log holds a
\* record of that device.
C10_ReportIffRecords ==
    Analysed =>
        /\ analysis[1].is_none <=> results = <<>>
        /\ \A dev \in Devices : dev \in DOMAIN Reports <=> Positions(dev) # {}

\* the log holds GPU records only: the GPU has a report, the CPU has none
C10_Witness ==
    /\ Analysed
    /\ Positions("GPU") # {}
    /\ Positions("CPU") = {}
    /\ DOMAIN Reports = {"GPU"}

\* C20: per device, when some adjacent pair of the sorted records has the
\* same target_fps and a drop of avg_fps_per_stream below 0.8 of the previous
\* value, bottleneck_at_streams is the least prev.num_streams over all such
\* pairs of all target rates; and bottleneck_at_streams is never larger than
\* the largest num_streams of the device's records.
C20_SmallestOnset ==
    Analysed =>
        \A dev \in DOMAIN Reports :
            /\ Drops(dev) # {} =>
                  Reports[dev].bottleneck_at_streams =
                      Least({Ordered(dev)[i - 1].num_streams : i \in Drops(dev)})
            /\ Reports[dev].bottleneck_at_streams
                  <= Greatest({results[k].num_streams : k \in Positions(dev)})

(***************************************************************************)
(* Properties of the threads of a trial.                                   *)
(***************************************************************************)
\* C14: a trial is aggregated, and its early stop decided, only when every
\* stream launched for it has finished, and then stream_results holds
\* exactly one result for each of stream_0 .. stream_{num_streams-1}, the
\* one that stream returned, whether it failed or not.
C14_FanInBarrier ==
    [][TrialEnds =>
          /\ DOMAIN workers = 0 .. (num_streams - 1)
          /\ \A i \in DOMAIN workers : workers[i].st = "done"
          /\ Len(stream_results) = num_streams
          /\ \A i \in DOMAIN workers :
                \E k \in DOMAIN stream_results :
                    /\ stream_results[k] = workers[i].result
                    /\ stream_results[k].stream_id = i]_vars

\* every result of a two-stream trial has been collected, one of a stream
\* that failed and one of a stream that succeeded
C14_Witness ==
    /\ pc = "collect"
    /\ num_streams = 2
    /\ Len(stream_results) = 2
    /\ ~stream_results[1].success
    /\ stream_results[2].success

\* the workers whose run_single_stream call has started and not returned
RunningWorkers == {i \in DOMAIN workers : workers[i].st \in {"loop", "finally"}}

\* C15: the trials of a sweep run one after the other: the workers of a
\* trial are created only when no worker of an earlier trial is left, they
\* go away only when every one of them has finished, and meanwhile they are
\* the streams of the trial in progress, at most num_streams of them running,
\* each working for the device and the target_fps of that trial.
C15_TrialsSequential ==
    /\ [](/\ Cardinality(RunningWorkers) <= num_streams
          /\ (workers # NoWorkers => pc = "collect" /\ DOMAIN workers = 0 .. (num_streams - 1))
          /\ \A i \in DOMAIN workers :
                workers[i].result.success =>
                    /\ workers[i].result.device = device
                    /\ workers[i].result.target_fps = fps_targets[fps_index])
    /\ [][/\ (workers = NoWorkers /\ workers' # NoWorkers) =>
                (pc = "trial" /\ <<fps_index', num_streams'>> = <<fps_index, num_streams>>)
          /\ (workers # NoWorkers /\ DOMAIN workers' # DOMAIN workers) =>
                (workers' = NoWorkers /\ \A i \in DOMAIN workers : workers[i].st = "done")
          /\ (workers # NoWorkers /\ workers' # NoWorkers) =>
                <<fps_index', num_streams'>> = <<fps_index, num_streams>>]_vars

\* both workers of the second trial of a target are running
C15_Witness ==
    /\ num_streams = 2
    /\ RunningWorkers = {0, 1}
    /\ Len(results) = 1

\* C16: a trial launches exactly num_streams invocations, stream_0 ..
\* stream_{num_streams-1}; invocation i is given video_files[i mod
\* len(video_files)], and every invocation works for the device and the
\* target_fps of the trial.
C16_LaunchRoundRobin ==
    /\ [][(pc = "trial" /\ pc' = "collect") =>
             /\ DOMAIN workers' = 0 .. (num_streams - 1)
             /\ \A i \in DOMAIN workers' :
                   /\ workers'[i].st = "queued"
                   /\ \E k \in 1 .. Len(video_files) :
                         /\ k - 1 = i % Len(video_files)
                         /\ workers'[i].video = video_files[k]]_vars
    /\ [][\A i \in DOMAIN workers \cap DOMAIN workers' :
             /\ workers'[i].video = workers[i].video
             /\ (workers'[i].result # workers[i].result =>
                    /\ workers'[i].result.stream_id = i
                    /\ workers'[i].result.device = device
                    /\ (workers'[i].result.success =>
                           workers'[i].result.target_fps = fps_targets[fps_index]))]_vars

\* the second stream of a trial works on the second of two videos
C16_Witness ==
    /\ pc = "collect"
    /\ Len(video_files) = 2
    /\ 1 \in DOMAIN workers
    /\ workers[1].video = video_files[2]
    /\ workers[1].result.success

\* C17: at any moment at most one resource_monitor thread is sampling: the
\* monitor started for a trial has ended when the streams of the next trial
\* start, also when the streams of the trial all ended early.
C17_OneSamplerAtATime == monitors <= 1

\* C18: the monitor thread never gates a trial: once the results of all
\* streams of the trial are in, the trial can be aggregated whether or not
\* its monitor thread (or an earlier one) is still running, and the record,
\* the number of successes and the early stop it then gives are those its
\* stream results alone determine.
C18_SamplerNeverGates ==
    (pc = "collect" /\ \A i \in DOMAIN workers : workers[i].collected) =>
        ENABLED (/\ Aggregate
                 /\ monitors' = monitors
                 /\ results' = AppendTrial(results, device, num_streams,
                                           fps_targets[fps_index], stream_results)
                 /\ pc' = (IF 2 * Len(Successful(stream_results)) < num_streams
                           THEN IF fps_index < Len(fps_targets) THEN "trial" ELSE "returned"
                           ELSE "pause"))

\* a trial has been aggregated and recorded while two monitor threads were
\* still running
C18_Witness ==
    /\ pc = "pause"
    /\ monitors = 2
    /\ Len(results) = 1

\* the pass of the outer loop a record of the call in progress belongs to
PassOf(r, targets) == CHOOSE fi \in 1 .. Len(targets) : targets[fi] = r.target_fps

\* the records of log that belong to the target_fps t, in the order of log
RecordsOf(log, t) == SelectSeq(log, LAMBDA r : r.target_fps = t)

\* C19: during and after one call of benchmark_streams on an empty log, the
\* num_streams of the records of each target_fps are 1, 2, ..., k in this
\* order, for some k from 0 to max_streams; the records of a target_fps that
\* comes earlier in fps_targets all precede those of a later one; and a
\* record, once appended, is never changed or removed.
C19_GapFreePrefixPerTarget ==
    [][/\ Len(results') >= Len(results)
       /\ SubSeq(results', 1, Len(results)) = results
       /\ InCall =>
             /\ \A k \in DOMAIN results' :
                   \E fi \in 1 .. Len(fps_targets) : fps_targets[fi] = results'[k].target_fps
             /\ \A fi \in 1 .. Len(fps_targets) :
                   LET recs == RecordsOf(results', fps_targets[fi])
                   IN  /\ Len(recs) <= max_streams
                       /\ \A j \in DOMAIN recs : recs[j].num_streams = j
             /\ \A j, k \in DOMAIN results' :
                   j < k => PassOf(results'[j], fps_targets) <= PassOf(results'[k], fps_targets)]_vars

\* a sweep has returned with the records 1, 2 of its first target and the
\* record 1 of its second target
C19_Witness ==
    /\ pc = "returned"
    /\ Len(results) = 3
    /\ results[1].num_streams = 1
    /\ results[2].num_streams = 2
    /\ results[3].num_streams = 1
    /\ results[3].target_fps # results[2].target_fps

(***************************************************************************)
(* Properties of the fan-in and the aggregation, on floats.                *)
(***************************************************************************)
\* the results of the trial's streams in the order of the stream ids
ByStreamId == [k \in 1 .. Cardinality(DOMAIN workers) |-> workers[k - 1].result]

\* C12: the record of a trial does not depend on the order in which the
\* results of its streams arrive: whatever the arrival order, the log after
\* the trial is the one that the same results taken in the order of the
\* stream ids give (same successful_streams, avg_fps_per_stream, total_fps
\* and total_detections).
C12_ArrivalOrderIndependent ==
    [][TrialEnds =>
          results' = FloatAppendTrial(results, device, num_streams, fps_targets[fps_index],
                                      ByStreamId)]_vars

\* the exact sum of the actual_fps of the results s, rounded once
ExactSumFps(s) ==
    IF \A k \in DOMAIN s : s[k].actual_fps.m = <<>>
    THEN FloatZero
    ELSE LET least == CHOOSE e \in {s[k].actual_fps.e : k \in DOMAIN s} :
                          \A k \in DOMAIN s : e <= s[k].actual_fps.e
             WideSum[k \in 0 .. Len(s)] ==
                 IF k = 0 THEN <<>>
                 ELSE WideAdd(WideSum[k - 1],
                              ShiftLeft(s[k].actual_fps.m, s[k].actual_fps.e - least))
         IN  RoundToFloat(StripZeros(WideSum[Len(s)]), FALSE, least)

\* C13: the record of a trial is computed over the successful streams only:
\* successful_streams is the number of results with success = true,
\* total_detections the sum of their detections, and total_fps, which is
\* avg_fps_per_stream * successful_streams, equals the sum of their
\* actual_fps (as sum() adds them in arrival order, or as the exact sum
\* rounded once); failed results contribute nothing.
C13_AggregatesOverSuccessful ==
    [][(TrialEnds /\ Successful(stream_results) # <<>>) =>
          LET r == results'[Len(results')]
              ok == Successful(stream_results)
          IN  /\ Len(results') = Len(results) + 1
              /\ r.successful_streams = Len(ok)
              /\ r.total_detections = SumDetections(ok)
              /\ r.total_fps = FloatMulInt(r.avg_fps_per_stream, r.successful_streams)
              /\ r.total_fps \in {FloatSumFps(ok), ExactSumFps(ok)}]_vars

=============================================================================
